---- MODULE Spec2Model ----
(***************************************************************************)
(* A model of ftl/buffer.h: the growable container SimpleBufferT, the      *)
(* endian codec Endian, the random-access BufferT and the sequential       *)
(* StreamBufferT.                                                          *)
(*                                                                         *)
(* Memory is a set of blocks: the heap blocks handed out by                *)
(* DefaultAllocator and one region that belongs to the caller.  A          *)
(* container holds the base pointer of a block (or nullptr); every access  *)
(* is checked against the block it goes to, and an access the C++ standard *)
(* leaves undefined stops the run with the kind of fault in `fault`.       *)
(***************************************************************************)
EXTENDS Integers, Sequences, FiniteSets, TLC

\* ------------------------------------------------------------------ bounds
\* size_type is an unsigned integer of SizeTypeBits bits; all size_type
\* arithmetic of the code is taken modulo 2^SizeTypeBits.
SizeTypeBits == 12
\* largest length a caller passes to a constructor, resize, append
MaxLen == 3
\* length of the caller's region
RegionLen == 2
\* number of blocks the heap can hold at once
NumBlocks == 3
\* the allocator cannot satisfy a request above this many bytes
HeapLimit == 128
\* shrink() is not called once shrink_counter_ is above this
MaxCounter == 3
\* largest length of a container that is copied, moved and pushed to
MaxContainerLen == 2
\* length of the buffer the codec is exercised on
CodecLen == 8
StreamLen == 4
\* largest length a buffer is grown to one byte at a time
GrowLen == 65

\* ------------------------------------------------------- program constants
DEFAULT_MINI_SIZE == 32
DEFAULT_SHRINK_TRIGGER_COUNT == 2
\* xran: char buf[80], and the characters of its three format strings that
\* are not a conversion; each of the four %08x prints eight characters or more
XRAN_BUF == 80
XRAN_TEXT == 34
XRAN_READ_TEXT == 52
XRAN_WRITE_TEXT == 54
XRAN_HEX == 8

\* ------------------------------------------------------------------ values
SIZE_MOD == 2 ^ SizeTypeBits
SIZE_MAX == SIZE_MOD - 1
Wrap(n) == n % SIZE_MOD

NULL == 0
\* the caller's region is block EXT, the heap blocks are 1..NumBlocks
HeapBlocks == 1 .. NumBlocks
EXT == NumBlocks + 1
Blocks == HeapBlocks \cup {EXT}
\* a byte malloc returned and nobody wrote yet
Uninit == 256

SampleBytes == {17, 255}
Bufs == {1, 2}

Max(a, b) == IF a >= b THEN a ELSE b
Min(a, b) == IF a <= b THEN a ELSE b
MinOf(S) == CHOOSE e \in S : \A o \in S : e <= o

VARIABLES
    bufs,         \* the containers: buf_, size_, capacity_, shrink_counter_, ref_
    mem,          \* the blocks: live, data
    host,         \* the byte order of the machine
    read_index,   \* StreamBufferT::read_index_
    write_index,  \* StreamBufferT::write_index_
    last,         \* the call that was made last, and what it returned
    fault         \* "none", or the undefined behaviour the last call ran into

vars == <<bufs, mem, host, read_index, write_index, last, fault>>

\* ------------------------------------------------------------------ memory
FreeBlocks(m) == {b \in HeapBlocks : ~m[b].live}

Fresh(n) == [live |-> TRUE, data |-> [i \in 1 .. n |-> Uninit]]
Released == [live |-> FALSE, data |-> <<>>]

\* what goes wrong when n bytes are touched at p + off
AccessFault(m, p, off, n) ==
    IF n = 0 THEN "none"
    ELSE IF p = NULL THEN "null_deref"
    ELSE IF ~m[p].live THEN "use_after_free"
    ELSE IF off + n > Len(m[p].data) THEN "out_of_bounds"
    ELSE "none"

ReadMem(m, p, off, n) == [i \in 1 .. n |-> m[p].data[off + i]]

WriteMem(m, p, off, bytes) ==
    IF Len(bytes) = 0 THEN m
    ELSE [m EXCEPT ![p].data =
             [i \in 1 .. Len(@) |->
                 IF i > off /\ i <= off + Len(bytes) THEN bytes[i - off] ELSE @[i]]]

\* DefaultAllocator::allocate: malloc. how = "fail" is malloc returning NULL.
allocate(m, n, how) ==
    IF how = "fail" \/ n > HeapLimit \/ FreeBlocks(m) = {}
    THEN [p |-> NULL, m |-> m, f |-> "none"]
    ELSE LET b == MinOf(FreeBlocks(m))
         IN [p |-> b, m |-> [m EXCEPT ![b] = Fresh(n)], f |-> "none"]

\* DefaultAllocator::deallocate: free. Freeing what malloc did not return,
\* or returned and was freed already, is undefined.
deallocate(m, p) ==
    IF p = NULL THEN [m |-> m, f |-> "none"]
    ELSE IF p = EXT THEN [m |-> m, f |-> "free_of_caller_memory"]
    ELSE IF ~m[p].live THEN [m |-> m, f |-> "double_free"]
    ELSE [m |-> [m EXCEPT ![p] = Released], f |-> "none"]

\* DefaultAllocator::reallocate: realloc. The block is resized where it is
\* (how = "inplace") or moved to a new block and the old one freed (how =
\* "move"); on failure the old block stays as it was.
Resized(data, n) == [i \in 1 .. n |-> IF i <= Len(data) THEN data[i] ELSE Uninit]

reallocate(m, p, n, how) ==
    IF p = NULL THEN allocate(m, n, how)
    ELSE IF p = EXT THEN [p |-> NULL, m |-> m, f |-> "free_of_caller_memory"]
    ELSE IF ~m[p].live THEN [p |-> NULL, m |-> m, f |-> "double_free"]
    ELSE IF how = "fail" \/ n > HeapLimit THEN [p |-> NULL, m |-> m, f |-> "none"]
    ELSE IF how = "inplace" \/ FreeBlocks(m) = {}
    THEN [p |-> p, m |-> [m EXCEPT ![p].data = Resized(@, n)], f |-> "none"]
    ELSE LET b == MinOf(FreeBlocks(m))
         IN [p |-> b,
             m |-> [m EXCEPT ![b] = [live |-> TRUE, data |-> Resized(m[p].data, n)],
                             ![p] = Released],
             f |-> "none"]

AllocOutcomes == {"fail", "inplace", "move"}

\* -------------------------------------------------- SimpleBufferT (container)
\* The result of a member function: the container and the memory after it,
\* st = "ok" or the exception it threw, f = the fault it ran into.
Res(c, m, st, f) == [c |-> c, m |-> m, st |-> st, f |-> f, val |-> <<>>]
Val(r, v) == [r EXCEPT !.val = v]
Good(r) == r.st = "ok" /\ r.f = "none"

Dead == [alive |-> FALSE, buf |-> NULL, size |-> 0, cap |-> 0, cnt |-> 0, ref |-> FALSE]
\* SimpleBufferT()
Empty == [alive |-> TRUE, buf |-> NULL, size |-> 0, cap |-> 0, cnt |-> 0, ref |-> FALSE]

empty(c) == c.size = 0

clear(c, m) ==
    LET d == IF c.buf # NULL /\ ~c.ref THEN deallocate(m, c.buf)
             ELSE [m |-> m, f |-> "none"]
    IN Res(Empty, d.m, "ok", d.f)

\* reserve that grows to what is asked for and never doubles the capacity
reserve_nodouble(c, m, size, how) ==
    IF size = c.cap THEN Res(c, m, "ok", "none")
    ELSE
    LET newcap == IF size > c.cap
                  THEN Max(DEFAULT_MINI_SIZE, size)
                  ELSE size
        c1 == [c EXCEPT !.cap = newcap]
    IN IF ~c.ref
       THEN LET a == reallocate(m, c.buf, newcap, how)
            IN IF a.f # "none" THEN Res(c1, a.m, "ub", a.f)
               ELSE IF a.p = NULL THEN Res(c1, a.m, "bad_alloc", "none")
               ELSE Res([c1 EXCEPT !.buf = a.p], a.m, "ok", "none")
       ELSE LET a == allocate(m, newcap, how)
                \* memcpy(p, buf_, size_) comes before the test of p
                fr == AccessFault(m, c.buf, 0, c.size)
                fw == AccessFault(a.m, a.p, 0, c.size)
            IN IF fw # "none" THEN Res(c1, a.m, "ub", fw)
               ELSE IF fr # "none" THEN Res(c1, a.m, "ub", fr)
               ELSE LET m2 == WriteMem(a.m, a.p, 0, ReadMem(m, c.buf, 0, c.size))
                        c2 == [c1 EXCEPT !.ref = FALSE]
                    IN IF a.p = NULL THEN Res(c2, m2, "bad_alloc", "none")
                       ELSE Res([c2 EXCEPT !.buf = a.p], m2, "ok", "none")

\* reserve that takes a Borrowed buffer to a block of its own and leaves the
\* bytes behind
reserve_nocopy(c, m, size, how) ==
    IF size = c.cap THEN Res(c, m, "ok", "none")
    ELSE
    LET newcap == IF size > c.cap
                  THEN Max(DEFAULT_MINI_SIZE, Max(size, Wrap(2 * c.cap)))
                  ELSE size
        c1 == [c EXCEPT !.cap = newcap]
        a == IF c.ref THEN allocate(m, newcap, how) ELSE reallocate(m, c.buf, newcap, how)
    IN IF a.f # "none" THEN Res(c1, a.m, "ub", a.f)
       ELSE IF a.p = NULL THEN Res(c1, a.m, "bad_alloc", "none")
       ELSE Res([c1 EXCEPT !.buf = a.p, !.ref = FALSE], a.m, "ok", "none")

reserve(c, m, size, how) ==
    IF size = c.cap THEN Res(c, m, "ok", "none")
    ELSE
    LET newcap == IF size > c.cap
                  THEN Max(DEFAULT_MINI_SIZE, Max(size, Wrap(2 * c.cap)))
                  ELSE size
        c1 == [c EXCEPT !.cap = newcap]
    IN IF ~c.ref
       THEN LET a == reallocate(m, c.buf, newcap, how)
            IN IF a.f # "none" THEN Res(c1, a.m, "ub", a.f)
               ELSE IF a.p = NULL THEN Res(c1, a.m, "bad_alloc", "none")
               ELSE Res([c1 EXCEPT !.buf = a.p], a.m, "ok", "none")
       ELSE LET a == allocate(m, newcap, how)
                \* memcpy(p, buf_, size_) comes before the test of p
                fr == AccessFault(m, c.buf, 0, c.size)
                fw == AccessFault(a.m, a.p, 0, c.size)
            IN IF fw # "none" THEN Res(c1, a.m, "ub", fw)
               ELSE IF fr # "none" THEN Res(c1, a.m, "ub", fr)
               ELSE LET m2 == WriteMem(a.m, a.p, 0, ReadMem(m, c.buf, 0, c.size))
                        c2 == [c1 EXCEPT !.ref = FALSE]
                    IN IF a.p = NULL THEN Res(c2, m2, "bad_alloc", "none")
                       ELSE Res([c2 EXCEPT !.buf = a.p], m2, "ok", "none")

\* a resize that keeps the memory when it is asked for no bytes
resize_noclear(c, m, size, how) ==
    IF size > c.cap
    THEN LET r == reserve(c, m, size, how)
         IN IF Good(r) THEN Res([r.c EXCEPT !.size = size], r.m, "ok", "none") ELSE r
    ELSE Res([c EXCEPT !.size = size], m, "ok", "none")

\* SimpleBufferT::resize(size_type size)
resize(c, m, size, how) ==
    IF size = 0
    THEN clear(c, m)
    ELSE IF size > c.cap
    THEN LET r == reserve(c, m, size, how)
         IN IF Good(r) THEN Res([r.c EXCEPT !.size = size], r.m, "ok", "none") ELSE r
    ELSE Res([c EXCEPT !.size = size], m, "ok", "none")

\* memcpy(dst + doff, src + soff, n) on the memory m, the container after it c
memcpy(c, m, dst, doff, src, soff, n) ==
    LET fr == AccessFault(m, src, soff, n)
        fw == AccessFault(m, dst, doff, n)
    IN IF fw # "none" THEN Res(c, m, "ub", fw)
       ELSE IF fr # "none" THEN Res(c, m, "ub", fr)
       ELSE IF n > 0 /\ dst = src /\ doff # soff /\ doff < soff + n /\ soff < doff + n
       THEN Res(c, m, "ub", "memcpy_overlap")
       ELSE Res(c, WriteMem(m, dst, doff, ReadMem(m, src, soff, n)), "ok", "none")

\* the bytes `bytes` of the caller stored at dst + doff
store(c, m, dst, doff, bytes) ==
    LET fw == AccessFault(m, dst, doff, Len(bytes))
    IN IF fw # "none" THEN Res(c, m, "ub", fw)
       ELSE Res(c, WriteMem(m, dst, doff, bytes), "ok", "none")

\* SimpleBufferT(const SimpleBufferT& other)
CopyConstruct(o, m, how) ==
    LET r == reserve([Empty EXCEPT !.size = o.size], m, o.size, how)
    IN IF Good(r) THEN memcpy(r.c, r.m, r.c.buf, 0, o.buf, 0, o.size) ELSE r

\* SimpleBufferT(size_t size)
SizeConstruct(m, size, how) ==
    LET r == reserve([Empty EXCEPT !.size = size], m, size, how)
    IN IF Good(r) THEN Res([r.c EXCEPT !.size = size], r.m, "ok", "none") ELSE r

\* SimpleBufferT(size_t size, const _Ty& val)
FillConstruct(m, size, v, how) ==
    LET r == SizeConstruct(m, size, how)
    IN IF Good(r) THEN store(r.c, r.m, r.c.buf, 0, [i \in 1 .. size |-> v]) ELSE r

\* SimpleBufferT(const_pointer buf, size_type size)
PtrConstruct(m, buf, size, how) ==
    LET c0 == [Empty EXCEPT !.size = size]
    IN IF buf # NULL /\ size > 0
       THEN LET r == reserve(c0, m, size, how)
            IN IF Good(r)
               THEN memcpy([r.c EXCEPT !.size = size], r.m, r.c.buf, 0, buf, 0, size)
               ELSE r
       ELSE Res(c0, m, "ok", "none")

\* SimpleBufferT::ref(pointer buf, size_type size)
RefConstruct(buf, size) ==
    IF buf # NULL /\ size > 0
    THEN [Empty EXCEPT !.buf = buf, !.cap = size, !.size = size, !.ref = TRUE]
    ELSE Empty

\* ~SimpleBufferT()
Destruct(c, m) ==
    LET d == IF c.buf # NULL /\ ~c.ref THEN deallocate(m, c.buf)
             ELSE [m |-> m, f |-> "none"]
    IN Res(Dead, d.m, "ok", d.f)

\* a copy assignment that takes the ownership tag of the source with its bytes
ContainerAssign_tag(c, o, self, m, how) ==
    IF ~empty(o)
    THEN LET r == resize(c, m, o.size, how)
         IN IF Good(r)
            THEN LET c2 == [r.c EXCEPT !.ref = o.ref, !.cnt = 0]
                 IN IF self THEN Res(c2, r.m, "ok", "none")
                    ELSE memcpy(c2, r.m, c2.buf, 0, o.buf, 0, c2.size)
            ELSE r
    ELSE resize(c, m, 0, how)

\* SimpleBufferT::operator=(const SimpleBufferT& other); self is other = this
ContainerAssign(c, o, self, m, how) ==
    IF ~empty(o)
    THEN LET r == resize(c, m, o.size, how)
         IN IF Good(r)
            THEN LET c2 == [r.c EXCEPT !.ref = FALSE, !.cnt = 0]
                     src == IF self THEN c2.buf ELSE o.buf
                 IN IF self THEN Res(c2, r.m, "ok", "none")
                    ELSE memcpy(c2, r.m, c2.buf, 0, src, 0, c2.size)
            ELSE r
    ELSE resize(c, m, 0, how)

\* SimpleBufferT::push_back(const value_type& val)
push_back(c, m, v, how) ==
    LET r == resize(c, m, Wrap(c.size + 1), how)
    IN IF Good(r) THEN store(r.c, r.m, r.c.buf, c.size, <<v>>) ELSE r

\* SimpleBufferT::push_back(const SimpleBufferT& other); self is other = this
push_back_buf(c, o, self, m, how) ==
    IF ~empty(o)
    THEN LET r == resize(c, m, Wrap(c.size + o.size), how)
             o2 == IF self THEN r.c ELSE o
         IN IF Good(r) THEN memcpy(r.c, r.m, r.c.buf, c.size, o2.buf, 0, o2.size) ELSE r
    ELSE Res(c, m, "ok", "none")

\* a shrink that compacts on the second qualifying call
shrink_eager(c, m, how) ==
    IF c.size > 0 /\ c.size < Wrap(2 * c.cap)
    THEN IF c.cnt + 1 > DEFAULT_SHRINK_TRIGGER_COUNT - 1
         THEN LET r == reserve([c EXCEPT !.cnt = c.cnt + 1], m, c.size, how)
              IN IF Good(r) THEN Res([r.c EXCEPT !.cnt = 0], r.m, "ok", "none") ELSE r
         ELSE Res([c EXCEPT !.cnt = c.cnt + 1], m, "ok", "none")
    ELSE Res([c EXCEPT !.cnt = 0], m, "ok", "none")

\* SimpleBufferT::shrink()
shrink(c, m, how) ==
    IF c.size > 0 /\ c.size < Wrap(2 * c.cap)
    THEN IF c.cnt + 1 > DEFAULT_SHRINK_TRIGGER_COUNT
         THEN LET r == reserve([c EXCEPT !.cnt = c.cnt + 1], m, c.size, how)
              IN IF Good(r) THEN Res([r.c EXCEPT !.cnt = 0], r.m, "ok", "none") ELSE r
         ELSE Res([c EXCEPT !.cnt = c.cnt + 1], m, "ok", "none")
    ELSE Res([c EXCEPT !.cnt = 0], m, "ok", "none")

\* SimpleBufferT::shrink_to_fit()
shrink_to_fit(c, m, how) ==
    LET r == IF c.size > 0 THEN reserve(c, m, c.size, how) ELSE Res(c, m, "ok", "none")
    IN IF Good(r) THEN Res([r.c EXCEPT !.cnt = 0], r.m, "ok", "none") ELSE r

\* --------------------------------------------------------------- Endian
\* A value of a multi-byte type is the sequence of its bytes, the most
\* significant first. A machine keeps it in an object most significant byte
\* first ("big") or last ("little"): this is what union NoAlias exposes.
Reverse(s) == [i \in 1 .. Len(s) |-> s[Len(s) + 1 - i]]
ObjectBytes(value, hw) == IF hw = "big" THEN value ELSE Reverse(value)
ObjectValue(bytes, hw) == IF hw = "big" THEN bytes ELSE Reverse(bytes)

kBigEndian == "kBigEndian"
kLittleEndian == "kLittleEndian"
Native == "native"
Orders == {kBigEndian, kLittleEndian, Native}

\* Endian::Swizzle(char* start, unsigned int len)
RECURSIVE SwizzleLoop(_, _, _)
SwizzleLoop(b, start, end) ==
    IF start < end
    THEN SwizzleLoop([b EXCEPT ![start] = b[end], ![end] = b[start]], start + 1, end - 1)
    ELSE b

\* Swizzle whose end is one byte short
Swizzle_short(b, len) == SwizzleLoop(b, 1, len - 1)

Swizzle(b, len) == SwizzleLoop(b, 1, len)

\* Endian::detect_big_endian(): the first byte of the object holding 0x01020304
detect_big_endian(hw) == ObjectBytes(<<1, 2, 3, 4>>, hw)[1] = 1
CurrentEndian(hw) == IF detect_big_endian(hw) THEN kBigEndian ELSE kLittleEndian

\* the order a call asks for: read<T>(offset) and write<T>(v, offset) without
\* an order dispatch on CurrentEndian()
Requested(ord, hw) == IF ord = Native THEN CurrentEndian(hw) ELSE ord

\* Endian::read that never swaps
EndianRead_noswap(bytes, endianness, hw) == ObjectValue(bytes, hw)

\* Endian::read<_Ty, _RetTy, endianness>(buf), on the sizeof(_RetTy) bytes at buf
EndianRead(bytes, endianness, hw) ==
    LET na == IF CurrentEndian(hw) # endianness THEN Swizzle(bytes, Len(bytes)) ELSE bytes
    IN ObjectValue(na, hw)

\* Endian::write<_Ty, _SrcTy, endianness>(buf, value): the bytes it copies to buf
EndianWrite(value, endianness, hw) ==
    LET na == ObjectBytes(value, hw)
    IN IF CurrentEndian(hw) # endianness THEN Swizzle(na, Len(na)) ELSE na

\* -------------------------------------------------------------- BufferT
\* xran: sprintf into buf, then throw std::out_of_range. A message longer than
\* buf overruns it: the call still throws, or the process is stopped (ub says
\* which of the two the build does).
xran(c, m, text, ub) ==
    IF text + 4 * XRAN_HEX + 1 > XRAN_BUF /\ ub = "aborts"
    THEN Res(c, m, "ub", "stack_buffer_overrun")
    ELSE Res(c, m, "out_of_range", "none")

Overruns == {"throws", "aborts"}

\* BufferT::xran
BufXran(c, m) == xran(c, m, XRAN_TEXT, "aborts")

\* BufferT::read<_RetTy, endianness>(offset), sizeof(_RetTy) = w
BufRead(c, m, w, ord, offset, hw) ==
    IF Wrap(offset + w) > c.size THEN BufXran(c, m)
    ELSE LET f == AccessFault(m, c.buf, offset, w)
         IN IF f # "none" THEN Res(c, m, "ub", f)
            ELSE Val(Res(c, m, "ok", "none"),
                     EndianRead(ReadMem(m, c.buf, offset, w), Requested(ord, hw), hw))

\* BufferT::read<_RetTy>(offset) of a one-byte type, read_byte, read_char
BufReadByte(c, m, offset) ==
    IF offset >= c.size THEN BufXran(c, m)
    ELSE LET f == AccessFault(m, c.buf, offset, 1)
         IN IF f # "none" THEN Res(c, m, "ub", f)
            ELSE Val(Res(c, m, "ok", "none"), ReadMem(m, c.buf, offset, 1))

\* BufferT::write<_SrcTy, endianness>(value, offset)
BufWrite(c, m, value, ord, offset, hw) ==
    IF Wrap(offset + Len(value)) > c.size THEN BufXran(c, m)
    ELSE store(c, m, c.buf, offset, EndianWrite(value, Requested(ord, hw), hw))

\* BufferT::write<_SrcTy>(value, offset) of a one-byte type
BufWriteByte(c, m, v, offset) ==
    IF offset >= c.size THEN BufXran(c, m)
    ELSE store(c, m, c.buf, offset, <<v>>)

\* BufferT::write_bytes(buf, buf_size, offset)
BufWriteBytes(c, m, bytes, offset) ==
    IF Wrap(offset + Len(bytes)) > c.size THEN BufXran(c, m)
    ELSE store(c, m, c.buf, offset, bytes)

\* EnsureWritableBytes that resizes to the missing bytes, not by them
EnsureWritableBytes_short(c, m, offset, size, how) ==
    IF Wrap(offset + size) > c.size
    THEN resize(c, m, Wrap(Wrap(offset + size) - c.size + SIZE_MOD), how)
    ELSE Res(c, m, "ok", "none")

\* BufferT::EnsureWritableBytes(offset, size)
EnsureWritableBytes(c, m, offset, size, how) ==
    IF Wrap(offset + size) > c.size
    THEN resize(c, m, Wrap(c.size + Wrap(Wrap(offset + size) - c.size + SIZE_MOD)), how)
    ELSE Res(c, m, "ok", "none")

\* BufferT::append<_SrcTy, endianness>(value)
BufAppend(c, m, value, ord, hw, how) ==
    LET r == EnsureWritableBytes(c, m, c.size, Len(value), how)
    IN IF Good(r) THEN BufWrite(r.c, r.m, value, ord, c.size, hw) ELSE r

\* BufferT::append<_SrcTy>(value) of a one-byte type
BufAppendByte(c, m, v, how) ==
    LET r == EnsureWritableBytes(c, m, c.size, 1, how)
    IN IF Good(r) THEN store(r.c, r.m, r.c.buf, c.size, <<v>>) ELSE r

\* BufferT::append(buf, buf_size)
BufAppendBytes(c, m, bytes, how) ==
    LET r == EnsureWritableBytes(c, m, c.size, Len(bytes), how)
    IN IF Good(r) THEN store(r.c, r.m, r.c.buf, c.size, bytes) ELSE r

\* BufferT::fill(value, offset, count): std::fill walks from begin() + offset
\* up to begin() + offset + count and never arrives when that is below it
BufFill(c, m, v, offset, count) ==
    LET cnt == IF count = 0 \/ Wrap(offset + count) > c.size
               THEN Wrap(c.size - offset + SIZE_MOD) ELSE count
        first == offset
        lst == Wrap(offset + cnt)
    IN IF lst < first THEN Res(c, m, "ub", IF c.buf = NULL THEN "null_deref" ELSE "out_of_bounds")
       ELSE store(c, m, c.buf, first, [i \in 1 .. lst - first |-> v])

\* BufferT(const_pointer buf, size_type size) with buf the pointer p + off
PtrConstructAt(m, p, off, size, how) ==
    LET c0 == [Empty EXCEPT !.size = size]
    IN IF (p # NULL \/ off # 0) /\ size > 0
       THEN LET r == reserve(c0, m, size, how)
            IN IF Good(r)
               THEN memcpy([r.c EXCEPT !.size = size], r.m, r.c.buf, 0, p, off, size)
               ELSE r
       ELSE Res(c0, m, "ok", "none")

\* BufferT::slice(offset, count): the buffer it returns
BufSlice(c, m, offset, count, how) ==
    IF empty(c) THEN Res(Empty, m, "ok", "none")
    ELSE IF Wrap(count + offset) >= c.size
    THEN PtrConstructAt(m, c.buf, offset, Wrap(c.size - offset + SIZE_MOD), how)
    ELSE PtrConstructAt(m, c.buf, offset, count, how)

\* std::memcmp(a, b, n) == 0. A byte nobody wrote has no value a comparison
\* can rely on: ind is what comparing it gives.
BytesEqual(m, a, b, n, ind) ==
    LET x == ReadMem(m, a, 0, n)
        y == ReadMem(m, b, 0, n)
    IN IF \E i \in 1 .. n : x[i] # y[i] /\ x[i] # Uninit /\ y[i] # Uninit THEN FALSE
       ELSE IF \E i \in 1 .. n : x[i] = Uninit \/ y[i] = Uninit THEN ind
       ELSE TRUE

\* an operator== that compares the bytes the two buffers both have
BufEquals_prefix(c, o, m, ind) ==
    LET n == Min(c.size, o.size)
        fa == AccessFault(m, c.buf, 0, n)
        fb == AccessFault(m, o.buf, 0, n)
    IN IF fa # "none" THEN Res(c, m, "ub", fa)
       ELSE IF fb # "none" THEN Res(c, m, "ub", fb)
       ELSE Val(Res(c, m, "ok", "none"),
                <<IF BytesEqual(m, c.buf, o.buf, n, ind) THEN 1 ELSE 0>>)

\* BufferT::operator==(const BufferT& other): <<1>> is true, <<0>> is false
BufEquals(c, o, m, ind) ==
    IF o.size = c.size
    THEN LET fa == AccessFault(m, c.buf, 0, c.size)
             fb == AccessFault(m, o.buf, 0, c.size)
         IN IF fa # "none" THEN Res(c, m, "ub", fa)
            ELSE IF fb # "none" THEN Res(c, m, "ub", fb)
            ELSE Val(Res(c, m, "ok", "none"),
                     <<IF BytesEqual(m, c.buf, o.buf, c.size, ind) THEN 1 ELSE 0>>)
    ELSE Val(Res(c, m, "ok", "none"), <<0>>)

\* BufferT::append(const std::vector<_Ty>& vec) and
\* BufferT::operator+=(const std::vector<_Ty>& vec), bytes the elements of vec.
\* `size_type size = size;` initialises the local with itself: off is the
\* value the build finds in it.
BufAppendVector(c, m, bytes, off, how) ==
    IF Len(bytes) # 0
    THEN LET r == resize(c, m, Wrap(c.size + Len(bytes)), how)
         IN IF Good(r) THEN store(r.c, r.m, r.c.buf, off, bytes) ELSE r
    ELSE Res(c, m, "ok", "none")

\* BufferT::operator=(const BufferT& other); self is other = this
BufAssign(c, o, self, m, how) ==
    IF empty(o) THEN resize(c, m, 0, how)
    ELSE LET r == resize(c, m, o.size, how)
         IN IF ~Good(r) \/ self THEN r
            ELSE memcpy(r.c, r.m, r.c.buf, 0, o.buf, 0, o.size)

\* a move constructor that leaves the source as it was
MoveConstruct_keep(o) == [c |-> [o EXCEPT !.alive = TRUE], o |-> o]

\* SimpleBufferT(SimpleBufferT&& other): what this and other become
MoveConstruct(o) == [c |-> [o EXCEPT !.alive = TRUE], o |-> Empty]

\* The block of c when its only pointer is overwritten: it stays allocated for
\* good and nothing reaches its bytes any more, so the model drops them.
Lost(c, m) ==
    IF ~c.ref /\ c.buf \in HeapBlocks /\ m[c.buf].live
    THEN [m EXCEPT ![c.buf].data = <<>>] ELSE m

\* SimpleBufferT::operator=(SimpleBufferT&& other), other another object
MoveAssign(c, o, m) ==
    IF ~empty(o) THEN [r |-> Res(o, Lost(c, m), "ok", "none"), o |-> Empty]
    ELSE [r |-> resize(c, m, 0, "fail"), o |-> o]

\* x = std::move(x): the fields are assigned to themselves and then reset
SelfMoveAssign(c, m) ==
    IF ~empty(c) THEN Res(Empty, Lost(c, m), "ok", "none") ELSE resize(c, m, 0, "fail")

\* BufferT::ref(pointer buf, size_type size): rv.continer_ = std::move(tmp)
BufRef(m, buf, size) == MoveAssign(Empty, MoveConstruct(RefConstruct(buf, size)).c, m).r

\* --------------------------------------------------------- StreamBufferT
\* Each operator gives the result on buffer_, and read_index_ or write_index_
\* after the call.
\* StreamBufferT::read<_RetTy, endianness>(), sizeof(_RetTy) = w
stream_read(c, m, ri, w, ord, hw, ub) ==
    IF Wrap(ri + w) > c.size
    THEN [r |-> xran(c, m, XRAN_READ_TEXT, ub), i |-> ri]
    ELSE LET f == AccessFault(m, c.buf, ri, w)
         IN [r |-> IF f # "none" THEN Res(c, m, "ub", f)
                   ELSE Val(Res(c, m, "ok", "none"),
                            EndianRead(ReadMem(m, c.buf, ri, w), Requested(ord, hw), hw)),
             i |-> Wrap(ri + w)]

\* StreamBufferT::read<_RetTy>() of a one-byte type
stream_read_byte(c, m, ri, ub) ==
    IF Wrap(ri + 1) > c.size
    THEN [r |-> xran(c, m, XRAN_READ_TEXT, ub), i |-> ri]
    ELSE LET f == AccessFault(m, c.buf, ri, 1)
         IN [r |-> IF f # "none" THEN Res(c, m, "ub", f)
                   ELSE Val(Res(c, m, "ok", "none"), ReadMem(m, c.buf, ri, 1)),
             i |-> Wrap(ri + 1)]

\* StreamBufferT::write<_SrcTy, endianness>(value)
stream_write(c, m, wi, value, ord, hw, ub) ==
    IF Wrap(wi + Len(value)) > c.size
    THEN [r |-> xran(c, m, XRAN_WRITE_TEXT, ub), i |-> wi]
    ELSE [r |-> store(c, m, c.buf, wi, EndianWrite(value, Requested(ord, hw), hw)),
          i |-> Wrap(wi + Len(value))]

\* a single-byte write that does not store at write_index_ but at the start
stream_write_byte_at_start(c, m, wi, v, ub) ==
    IF Wrap(wi + 1) > c.size
    THEN [r |-> xran(c, m, XRAN_WRITE_TEXT, ub), i |-> wi]
    ELSE [r |-> store(c, m, c.buf, 0, <<v>>), i |-> Wrap(wi + 1)]

\* StreamBufferT::write<_SrcTy>(value) of a one-byte type
stream_write_byte(c, m, wi, v, ub) ==
    IF Wrap(wi + 1) > c.size
    THEN [r |-> xran(c, m, XRAN_WRITE_TEXT, ub), i |-> wi]
    ELSE [r |-> store(c, m, c.buf, wi, <<v>>), i |-> Wrap(wi + 1)]

\* StreamBufferT::read_eof and write_eof
read_eof(c, ri) == ri >= c.size
write_eof(c, wi) == wi >= c.size

\* ------------------------------------------------------------ the calls
Lens == 0 .. MaxLen
\* offsets and counts of size_type: the small ones, and the largest
Offsets == {0, 1, MaxLen - 1, MaxLen, SIZE_MAX}
Counts == {0, 1, MaxLen, SIZE_MAX}
\* the values of a two-byte type whose two bytes differ
Values2 == {<<17, 255>>, <<255, 17>>}
\* the arrays a caller passes to write_bytes and append
ByteSeqs == {<<>>, <<17>>, <<255, 17>>}
Pointers == {NULL, EXT}

\* what `last` holds: the call, whether the object it was made on was Borrowed,
\* how it returned, and the value it returned
Call(op, was, r) == [op |-> op, ref |-> was, st |-> r.st, val |-> r.val]
NoCall == [op |-> "none", ref |-> FALSE, st |-> "ok", val |-> <<>>]

Running == fault = "none"
Alive(x) == bufs[x].alive

\* a member call on x returned r
Commit(x, r, op) ==
    /\ bufs' = [bufs EXCEPT ![x] = r.c]
    /\ mem' = r.m
    /\ fault' = r.f
    /\ last' = Call(op, bufs[x].ref, r)
    /\ UNCHANGED <<host, read_index, write_index>>

\* a constructor of x returned r; a constructor that throws leaves no object
Constructed(x, r, op) ==
    Commit(x, IF Good(r) THEN r ELSE [r EXCEPT !.c = Dead], op)

Construct(x) ==
    /\ Running /\ ~Alive(x)
    /\ Constructed(x, Res(Empty, mem, "ok", "none"), "BufferT()")

ConstructSize(x, n, how) ==
    /\ Running /\ ~Alive(x)
    /\ Constructed(x, SizeConstruct(mem, n, how), "BufferT(size)")

ConstructFill(x, n, v, how) ==
    /\ Running /\ ~Alive(x)
    /\ Constructed(x, FillConstruct(mem, n, v, how), "BufferT(size,val)")

ConstructPtr(x, p, n, how) ==
    /\ Running /\ ~Alive(x)
    /\ p = EXT => n <= RegionLen
    /\ Constructed(x, PtrConstruct(mem, p, n, how), "BufferT(buf,size)")

ConstructCopy(x, y, how) ==
    /\ Running /\ ~Alive(x) /\ Alive(y)
    /\ Constructed(x, CopyConstruct(bufs[y], mem, how), "BufferT(const&)")

ConstructMove(x, y) ==
    /\ Running /\ ~Alive(x) /\ Alive(y)
    /\ LET mv == MoveConstruct(bufs[y])
       IN /\ bufs' = [bufs EXCEPT ![x] = mv.c, ![y] = mv.o]
          /\ last' = Call("BufferT(&&)", FALSE, Res(mv.c, mem, "ok", "none"))
          /\ UNCHANGED <<mem, fault, host, read_index, write_index>>

Ref(x, p, n) ==
    /\ Running /\ ~Alive(x)
    /\ p = EXT => n <= RegionLen
    /\ Constructed(x, BufRef(mem, p, n), "ref")

Destroy(x) ==
    /\ Running /\ Alive(x)
    /\ Commit(x, Destruct(bufs[x], mem), "~BufferT")

Resize(x, n, how) ==
    /\ Running /\ Alive(x)
    /\ Commit(x, resize(bufs[x], mem, n, how), "resize")

Clear(x) ==
    /\ Running /\ Alive(x)
    /\ Commit(x, clear(bufs[x], mem), "clear")

Shrink(x, how) ==
    /\ Running /\ Alive(x) /\ bufs[x].cnt <= MaxCounter
    /\ Commit(x, shrink(bufs[x], mem, how), "shrink")

ShrinkToFit(x, how) ==
    /\ Running /\ Alive(x)
    /\ Commit(x, shrink_to_fit(bufs[x], mem, how), "shrink_to_fit")

PushBack(x, v, how) ==
    /\ Running /\ Alive(x) /\ bufs[x].size < MaxContainerLen
    /\ Commit(x, push_back(bufs[x], mem, v, how), "push_back")

PlusAssign(x, y, how) ==
    /\ Running /\ Alive(x) /\ Alive(y) /\ bufs[x].size + bufs[y].size <= MaxContainerLen
    /\ Commit(x, push_back_buf(bufs[x], bufs[y], x = y, mem, how), "operator+=")

Assign(x, y, how) ==
    /\ Running /\ Alive(x) /\ Alive(y)
    /\ Commit(x, BufAssign(bufs[x], bufs[y], x = y, mem, how), "operator=(const&)")

AssignContainer(x, y, how) ==
    /\ Running /\ Alive(x) /\ Alive(y)
    /\ Commit(x, ContainerAssign(bufs[x], bufs[y], x = y, mem, how),
              "SimpleBufferT::operator=(const&)")

AssignMove(x, y) ==
    /\ Running /\ Alive(x) /\ Alive(y)
    /\ IF x = y
       THEN Commit(x, SelfMoveAssign(bufs[x], mem), "operator=(&&)")
       ELSE LET mv == MoveAssign(bufs[x], bufs[y], mem)
            IN /\ bufs' = [bufs EXCEPT ![x] = mv.r.c, ![y] = mv.o]
               /\ mem' = mv.r.m
               /\ fault' = mv.r.f
               /\ last' = Call("operator=(&&)", bufs[x].ref, mv.r)
               /\ UNCHANGED <<host, read_index, write_index>>

Read(x, w, ord, off) ==
    /\ Running /\ Alive(x)
    /\ Commit(x, BufRead(bufs[x], mem, w, ord, off, host), "read")

ReadByte(x, off) ==
    /\ Running /\ Alive(x)
    /\ Commit(x, BufReadByte(bufs[x], mem, off), "read_byte")

Write(x, value, ord, off) ==
    /\ Running /\ Alive(x)
    /\ Commit(x, BufWrite(bufs[x], mem, value, ord, off, host), "write")

WriteByte(x, v, off) ==
    /\ Running /\ Alive(x)
    /\ Commit(x, BufWriteByte(bufs[x], mem, v, off), "write_byte")

WriteBytes(x, bytes, off) ==
    /\ Running /\ Alive(x)
    /\ Commit(x, BufWriteBytes(bufs[x], mem, bytes, off), "write_bytes")

AppendValue(x, value, ord, how) ==
    /\ Running /\ Alive(x) /\ bufs[x].size + Len(value) <= MaxLen
    /\ Commit(x, BufAppend(bufs[x], mem, value, ord, host, how), "append")

AppendByte(x, v, how) ==
    /\ Running /\ Alive(x) /\ bufs[x].size + 1 <= MaxLen
    /\ Commit(x, BufAppendByte(bufs[x], mem, v, how), "append_byte")

AppendBytes(x, bytes, how) ==
    /\ Running /\ Alive(x) /\ bufs[x].size + Len(bytes) <= MaxLen
    /\ Commit(x, BufAppendBytes(bufs[x], mem, bytes, how), "append_bytes")

Fill(x, v, off, count) ==
    /\ Running /\ Alive(x)
    /\ Commit(x, BufFill(bufs[x], mem, v, off, count), "fill")

\* x == y
Equals(x, y, ind) ==
    /\ Running /\ Alive(x) /\ Alive(y)
    /\ Commit(x, BufEquals(bufs[x], bufs[y], mem, ind), "operator==")

\* x.push_back(v) on a buffer that is grown up to GrowLen bytes
PushBackLong(x, v, how) ==
    /\ Running /\ Alive(x) /\ bufs[x].size < GrowLen
    /\ Commit(x, push_back(bufs[x], mem, v, how), "push_back")

\* x.append(v), v a single byte, on a buffer that is grown up to GrowLen bytes
AppendByteLong(x, v, how) ==
    /\ Running /\ Alive(x) /\ bufs[x].size < GrowLen
    /\ Commit(x, BufAppendByte(bufs[x], mem, v, how), "append_byte")

\* x.append(vec)
AppendVector(x, bytes, off, how) ==
    /\ Running /\ Alive(x) /\ bufs[x].size + Len(bytes) <= MaxLen
    /\ Commit(x, BufAppendVector(bufs[x], mem, bytes, off, how), "append(vector)")

\* x += vec
PlusAssignVector(x, bytes, off, how) ==
    /\ Running /\ Alive(x) /\ bufs[x].size + Len(bytes) <= MaxLen
    /\ Commit(x, BufAppendVector(bufs[x], mem, bytes, off, how), "operator+=(vector)")

\* the caller writes to its own region
\* BufferT y = x.slice(offset, count)
Slice(x, y, offset, count, how) ==
    /\ Running /\ Alive(x) /\ ~Alive(y)
    /\ Constructed(y, BufSlice(bufs[x], mem, offset, count, how), "slice")

CallerWrite(i, v) ==
    /\ Running
    /\ mem' = [mem EXCEPT ![EXT].data[i] = v]
    /\ last' = Call("caller_write", FALSE, Res(Dead, mem, "ok", "none"))
    /\ UNCHANGED <<bufs, fault, host, read_index, write_index>>

\* the memory at the start: an empty heap, and the caller's region
StartMem ==
    [b \in Blocks |->
        IF b = EXT THEN [live |-> TRUE, data |-> [i \in 1 .. RegionLen |-> 17]]
        ELSE Released]

\* ------------------------------------------------------------------------
\* Spec: one BufferT, the buffer A, and the caller's region
A == 1
B == 2

Init ==
    /\ bufs = [x \in Bufs |-> Dead]
    /\ mem = StartMem
    /\ host = "little"
    /\ read_index = 0
    /\ write_index = 0
    /\ last = NoCall
    /\ fault = "none"

Next ==
    \/ \E n \in Lens, how \in AllocOutcomes : ConstructFill(A, n, 17, how)
    \/ \E p \in Pointers, n \in Lens, how \in AllocOutcomes : ConstructPtr(A, p, n, how)
    \/ \E p \in Pointers, n \in Lens : Ref(A, p, n)
    \/ Destroy(A)
    \/ \E n \in Lens, how \in AllocOutcomes : Resize(A, n, how)
    \/ \E ord \in Orders, off \in Offsets : Read(A, 2, ord, off)
    \/ \E off \in Offsets : ReadByte(A, off)
    \/ \E value \in Values2, ord \in Orders, off \in Offsets : Write(A, value, ord, off)
    \/ \E off \in Offsets : WriteByte(A, 255, off)
    \/ \E bytes \in ByteSeqs, off \in Offsets : WriteBytes(A, bytes, off)
    \/ \E value \in Values2, ord \in Orders, how \in AllocOutcomes : AppendValue(A, value, ord, how)
    \/ \E how \in AllocOutcomes : AppendByte(A, 255, how)
    \/ \E bytes \in ByteSeqs, how \in AllocOutcomes : AppendBytes(A, bytes, how)
    \/ \E off \in Offsets, count \in Counts : Fill(A, 255, off, count)
    \/ \E i \in 1 .. RegionLen, v \in SampleBytes : CallerWrite(i, v)

Spec == Init /\ [][Next]_vars

\* ------------------------------------------------------------------------
\* the same on a machine of either byte order
InitAnyHost ==
    /\ bufs = [x \in Bufs |-> Dead]
    /\ mem = StartMem
    /\ host \in {"big", "little"}
    /\ read_index = 0
    /\ write_index = 0
    /\ last = NoCall
    /\ fault = "none"

\* SpecAppend: one BufferT that is built, trimmed to its size and appended to
NextAppend ==
    \/ Construct(A)
    \/ \E n \in Lens, v \in SampleBytes, how \in AllocOutcomes : ConstructFill(A, n, v, how)
    \/ \E p \in Pointers, n \in Lens : Ref(A, p, n)
    \/ Destroy(A)
    \/ \E how \in AllocOutcomes : ShrinkToFit(A, how)
    \/ \E value \in Values2, ord \in Orders, how \in AllocOutcomes : AppendValue(A, value, ord, how)
    \/ \E v \in SampleBytes, how \in AllocOutcomes : AppendByte(A, v, how)
    \/ \E bytes \in ByteSeqs, how \in AllocOutcomes : AppendBytes(A, bytes, how)
    \/ \E ord \in Orders, off \in Lens : Read(A, 2, ord, off)

SpecAppend == Init /\ [][NextAppend]_vars

\* ------------------------------------------------------------------------
\* SpecContainer: the container A through its whole life, a second container
\* B it is copied and moved from, and the caller's region
ContainerLens == 0 .. MaxContainerLen

NextContainer ==
    \/ Construct(A)
    \/ \E n \in ContainerLens, how \in AllocOutcomes : ConstructSize(A, n, how)
    \/ \E x \in Bufs, n \in ContainerLens, how \in AllocOutcomes : ConstructFill(x, n, 17, how)
    \/ \E p \in Pointers, n \in ContainerLens, how \in AllocOutcomes : ConstructPtr(A, p, n, how)
    \/ \E how \in AllocOutcomes : ConstructCopy(A, B, how)
    \/ ConstructMove(A, B)
    \/ \E x \in Bufs, p \in Pointers, n \in ContainerLens : Ref(x, p, n)
    \/ \E x \in Bufs : Destroy(x)
    \/ \E n \in ContainerLens, how \in AllocOutcomes : Resize(A, n, how)
    \/ Clear(A)
    \/ \E how \in AllocOutcomes : Shrink(A, how)
    \/ \E how \in AllocOutcomes : ShrinkToFit(A, how)
    \/ \E how \in AllocOutcomes : PushBack(A, 17, how)
    \/ \E how \in AllocOutcomes : PlusAssign(A, B, how)
    \/ \E y \in Bufs, how \in AllocOutcomes : Assign(A, y, how)
    \/ \E y \in Bufs, how \in AllocOutcomes : AssignContainer(A, y, how)
    \/ \E y \in Bufs : AssignMove(A, y)

SpecContainer == Init /\ [][NextContainer]_vars

\* ------------------------------------------------------------------------
\* SpecCodec: typed writes and reads on a zero-filled Owned buffer of CodecLen
\* bytes, on a machine of either byte order
Widths == {2, 4, 8}
\* values whose bytes all differ, the most significant first
CodecValues == {<<255, 238>>, <<255, 238, 221, 204>>, <<1, 2, 3, 4, 5, 6, 7, 8>>}
CodecArrays == {<<255, 238, 221, 204>>}
CodecOffsets == {0, CodecLen - 2}

InitCodec ==
    /\ bufs = [x \in Bufs |->
                  IF x = A THEN FillConstruct(StartMem, CodecLen, 0, "move").c ELSE Dead]
    /\ mem = FillConstruct(StartMem, CodecLen, 0, "move").m
    /\ host \in {"big", "little"}
    /\ read_index = 0
    /\ write_index = 0
    /\ last = NoCall
    /\ fault = "none"

NextCodec ==
    \/ \E value \in CodecValues, ord \in Orders, off \in CodecOffsets :
           Write(A, value, ord, off)
    \/ \E bytes \in CodecArrays, off \in CodecOffsets : WriteBytes(A, bytes, off)
    \/ \E w \in Widths, ord \in Orders, off \in CodecOffsets : Read(A, w, ord, off)

SpecCodec == InitCodec /\ [][NextCodec]_vars

\* ------------------------------------------------------------------------
\* SpecCursor: one StreamBufferT over the buffer A
StreamCommit(r, op, ri, wi) ==
    /\ bufs' = [bufs EXCEPT ![A] = r.c]
    /\ mem' = r.m
    /\ fault' = r.f
    /\ last' = Call(op, bufs[A].ref, r)
    /\ read_index' = ri
    /\ write_index' = wi
    /\ UNCHANGED host

\* a constructor of the cursor returned r
StreamConstructed(r, op) ==
    StreamCommit(IF Good(r) THEN r ELSE [r EXCEPT !.c = Dead], op, 0, 0)

StreamConstruct ==
    /\ Running /\ ~Alive(A)
    /\ StreamConstructed(Res(Empty, mem, "ok", "none"), "StreamBufferT()")

StreamConstructFill(n, v, how) ==
    /\ Running /\ ~Alive(A)
    /\ StreamConstructed(FillConstruct(mem, n, v, how), "StreamBufferT(size,val)")

StreamConstructPtr(p, n, how) ==
    /\ Running /\ ~Alive(A)
    /\ p = EXT => n <= RegionLen
    /\ StreamConstructed(PtrConstruct(mem, p, n, how), "StreamBufferT(buf,size)")

StreamRef(p, n) ==
    /\ Running /\ ~Alive(A)
    /\ p = EXT => n <= RegionLen
    /\ StreamConstructed(MoveAssign(Empty, BufRef(mem, p, n).c, mem).r, "StreamBufferT::ref")

StreamDestroy ==
    /\ Running /\ Alive(A)
    /\ StreamCommit(Destruct(bufs[A], mem), "~StreamBufferT", 0, 0)

StreamRead(w, ord, ub) ==
    /\ Running /\ Alive(A)
    /\ LET s == stream_read(bufs[A], mem, read_index, w, ord, host, ub)
       IN StreamCommit(s.r, "stream_read", s.i, write_index)

StreamReadByte(ub) ==
    /\ Running /\ Alive(A)
    /\ LET s == stream_read_byte(bufs[A], mem, read_index, ub)
       IN StreamCommit(s.r, "stream_read_byte", s.i, write_index)

StreamWrite(value, ord, ub) ==
    /\ Running /\ Alive(A)
    /\ LET s == stream_write(bufs[A], mem, write_index, value, ord, host, ub)
       IN StreamCommit(s.r, "stream_write", read_index, s.i)

StreamWriteByte(v, ub) ==
    /\ Running /\ Alive(A)
    /\ LET s == stream_write_byte(bufs[A], mem, write_index, v, ub)
       IN StreamCommit(s.r, "stream_write_byte", read_index, s.i)

\* buf().resize(n)
StreamBufResize(n, how) ==
    /\ Running /\ Alive(A)
    /\ StreamCommit(resize(bufs[A], mem, n, how), "buf().resize", read_index, write_index)

\* buf().clear()
StreamBufClear ==
    /\ Running /\ Alive(A)
    /\ StreamCommit(clear(bufs[A], mem), "buf().clear", read_index, write_index)

\* StreamBufferT d(std::move(s)), s the cursor over A and d a new cursor over
\* B: read_index_ and write_index_ are copied, which leaves those of s as they
\* are, and buffer_ is moved, which empties that of s. read_index and
\* write_index go on as the indices of s; those of d are theirs at this step.
StreamMoveConstruct ==
    /\ Running /\ Alive(A) /\ ~Alive(B)
    /\ LET mv == MoveConstruct(bufs[A])
       IN /\ bufs' = [bufs EXCEPT ![A] = [mv.o EXCEPT !.alive = TRUE], ![B] = mv.c]
          /\ last' = Call("StreamBufferT(&&)", bufs[A].ref, Res(mv.c, mem, "ok", "none"))
    /\ UNCHANGED <<mem, fault, host, read_index, write_index>>

NextCursor ==
    \/ StreamConstruct
    \/ \E n \in Lens, v \in SampleBytes, how \in AllocOutcomes : StreamConstructFill(n, v, how)
    \/ \E p \in Pointers, n \in Lens, how \in AllocOutcomes : StreamConstructPtr(p, n, how)
    \/ \E p \in Pointers, n \in Lens : StreamRef(p, n)
    \/ StreamDestroy
    \/ \E ord \in Orders, ub \in Overruns : StreamRead(2, ord, ub)
    \/ \E ub \in Overruns : StreamReadByte(ub)
    \/ \E value \in Values2, ord \in Orders, ub \in Overruns : StreamWrite(value, ord, ub)
    \/ \E v \in SampleBytes, ub \in Overruns : StreamWriteByte(v, ub)
    \/ \E n \in Lens, how \in AllocOutcomes : StreamBufResize(n, how)

SpecCursor == InitAnyHost /\ [][NextCursor]_vars

\* SpecCursorLife: a cursor over A whose buffer is also reached through buf()
\* and which is moved from, into a cursor over B
NextCursorLife ==
    \/ StreamConstruct
    \/ \E n \in Lens, how \in AllocOutcomes : StreamConstructFill(n, 17, how)
    \/ \E n \in Lens : StreamRef(EXT, n)
    \/ StreamDestroy
    \/ \E ub \in Overruns : StreamReadByte(ub)
    \/ \E ub \in Overruns : StreamWriteByte(255, ub)
    \/ \E n \in Lens, how \in AllocOutcomes : StreamBufResize(n, how)
    \/ StreamBufClear
    \/ StreamMoveConstruct
    \/ Destroy(B)

SpecCursorLife == Init /\ [][NextCursorLife]_vars

\* SpecStream: test_streambuffer1, a cursor over a buffer of a fixed size that
\* is written with the bytes 1, 2, 3, ... in turn and read back, the reads and
\* writes in any interleaving, byte by byte or two bytes at a time
StreamLens == 0 .. StreamLen

\* uint8_t i = 1; ... buf.write(i++): the byte the test writes at index i
PayloadAt(i) == (i + 1) % 256

\* the two-byte value that is laid out as PayloadAt(i), PayloadAt(i + 1) when
\* written in the order ord on the machine hw, most significant digit first
PayloadValue(i, ord, hw) ==
    IF Requested(ord, hw) = kBigEndian
    THEN <<PayloadAt(i), PayloadAt(i + 1)>>
    ELSE <<PayloadAt(i + 1), PayloadAt(i)>>

NextStream ==
    \/ \E n \in StreamLens, how \in AllocOutcomes : StreamConstructFill(n, 0, how)
    \/ StreamDestroy
    \/ \E ub \in Overruns : StreamWriteByte(PayloadAt(write_index), ub)
    \/ \E ord \in Orders, ub \in Overruns :
           StreamWrite(PayloadValue(write_index, ord, host), ord, ub)
    \/ \E ub \in Overruns : StreamReadByte(ub)
    \/ \E ord \in Orders, ub \in Overruns : StreamRead(2, ord, ub)

SpecStream == InitAnyHost /\ [][NextStream]_vars

\* SpecSlice: a buffer A, Owned or Borrowed, and the slices B taken of it
NextSlice ==
    \/ \E n \in Lens, how \in AllocOutcomes : ConstructFill(A, n, 17, how)
    \/ \E n \in Lens : Ref(A, EXT, n)
    \/ \E x \in Bufs : Destroy(x)
    \/ \E x \in Bufs, off \in Lens : WriteByte(x, 255, off)
    \/ \E i \in 1 .. RegionLen : CallerWrite(i, 255)
    \/ \E off \in Offsets, count \in Counts, how \in AllocOutcomes :
           Slice(A, B, off, count, how)

SpecSlice == Init /\ [][NextSlice]_vars

\* SpecMove: a buffer B, Owned or Borrowed, that A is move-constructed and
\* move-assigned from
NextMove ==
    \/ Construct(A)
    \/ \E how \in AllocOutcomes : ConstructFill(A, 1, 17, how)
    \/ Ref(A, EXT, 1)
    \/ \E n \in Lens, how \in AllocOutcomes : ConstructFill(B, n, 17, how)
    \/ \E n \in Lens : Ref(B, EXT, n)
    \/ \E x \in Bufs : Destroy(x)
    \/ \E n \in Lens, how \in AllocOutcomes : Resize(B, n, how)
    \/ WriteByte(B, 255, MaxLen - 1)
    \/ ConstructMove(A, B)
    \/ AssignMove(A, B)

SpecMove == Init /\ [][NextMove]_vars

\* SpecTag: a container A, Owned or Borrowed, under every call that touches
\* its ownership tag, and a buffer B, Owned or Borrowed and alive to the end,
\* that it is appended, copied and moved from
NextTag ==
    \/ Construct(A)
    \/ \E n \in ContainerLens, how \in AllocOutcomes : ConstructFill(A, n, 17, how)
    \/ \E how \in AllocOutcomes : ConstructFill(B, 1, 17, how)
    \/ \E x \in Bufs, n \in ContainerLens : Ref(x, EXT, n)
    \/ Destroy(A)
    \/ \E n \in ContainerLens, how \in AllocOutcomes : Resize(A, n, how)
    \/ Clear(A)
    \/ \E how \in AllocOutcomes : Shrink(A, how)
    \/ \E how \in AllocOutcomes : ShrinkToFit(A, how)
    \/ \E how \in AllocOutcomes : PushBack(A, 17, how)
    \/ \E how \in AllocOutcomes : PlusAssign(A, B, how)
    \/ \E how \in AllocOutcomes : Assign(A, B, how)
    \/ \E how \in AllocOutcomes : AssignContainer(A, B, how)
    \/ AssignMove(A, B)

SpecTag == Init /\ [][NextTag]_vars

\* SpecEquals: a buffer A, Owned or Borrowed, and an Owned buffer B of any
\* size below its capacity, written to and compared
NextEquals ==
    \/ \E x \in Bufs, n \in Lens : ConstructFill(x, n, 17, "inplace")
    \/ \E n \in Lens : Ref(A, EXT, n)
    \/ Destroy(A)
    \/ \E n \in Lens : Resize(B, n, "inplace")
    \/ \E off \in {0, MaxLen - 1} : WriteByte(A, 255, off)
    \/ \E off \in Lens : WriteByte(B, 255, off)
    \/ \E ind \in BOOLEAN : Equals(A, B, ind)

SpecEquals == Init /\ [][NextEquals]_vars

\* SpecGrow: a buffer A, Owned or Borrowed, resized and grown a byte at a time
\* past DEFAULT_MINI_SIZE and past twice that
GrowSizes == {0, 1, GrowLen}

NextGrow ==
    \/ Construct(A)
    \/ \E n \in Lens : Ref(A, EXT, n)
    \/ Destroy(A)
    \/ \E n \in GrowSizes, how \in AllocOutcomes : Resize(A, n, how)
    \/ \E how \in AllocOutcomes : PushBackLong(A, 17, how)
    \/ AppendByteLong(A, 17, "move")

SpecGrow == Init /\ [][NextGrow]_vars

\* SpecPlus: a buffer A, Owned or Borrowed, that a buffer B and A itself are
\* appended to
NextPlus ==
    \/ Construct(A)
    \/ \E n \in ContainerLens, how \in AllocOutcomes : ConstructFill(A, n, 17, how)
    \/ \E how \in AllocOutcomes : ConstructFill(B, 1, 255, how)
    \/ \E x \in Bufs, n \in ContainerLens : Ref(x, EXT, n)
    \/ Destroy(A)
    \/ \E n \in ContainerLens : Resize(A, n, "inplace")
    \/ WriteByte(A, 255, 0)
    \/ \E y \in Bufs, how \in AllocOutcomes : PlusAssign(A, y, how)

SpecPlus == Init /\ [][NextPlus]_vars

\* SpecLoop: test_streambuffer and test_streambuffer1, a cursor over a buffer
\* of a fixed size that is written to the end by
\*     while (!buf.write_eof()) buf.write<T>(v);
\* and read to the end by
\*     while (!buf.read_eof()) buf.read<T>();
\* with T of one byte or two. A loop ends when its test fails or its body
\* throws; the thread that runs it takes a step whenever it can.
ReadOp(w) == IF w = 1 THEN "stream_read_byte" ELSE "stream_read"
WriteOp(w) == IF w = 1 THEN "stream_write_byte" ELSE "stream_write"

\* one turn of the write loop for a type of w bytes: the loop starts on a new
\* cursor, or goes on
WriteLoop(w, ord, ub) ==
    /\ Alive(A) /\ last.st = "ok"
    /\ last.op \in {"StreamBufferT(size,val)", WriteOp(w)}
    /\ ~write_eof(bufs[A], write_index)
    /\ IF w = 1
       THEN \E v \in SampleBytes : StreamWriteByte(v, ub)
       ELSE \E value \in Values2 : StreamWrite(value, ord, ub)

\* one turn of the read loop for a type of w bytes: the loop starts on a new
\* cursor or after a write loop that ran to its end, or goes on
ReadLoop(w, ord, ub) ==
    /\ Alive(A) /\ last.st = "ok"
    /\ \/ last.op \in {"StreamBufferT(size,val)", ReadOp(w)}
       \/ /\ last.op \in {WriteOp(1), WriteOp(2)}
          /\ write_eof(bufs[A], write_index)
    /\ ~read_eof(bufs[A], read_index)
    /\ IF w = 1 THEN StreamReadByte(ub) ELSE StreamRead(w, ord, ub)

NextLoop ==
    \/ \E n \in StreamLens, how \in AllocOutcomes : StreamConstructFill(n, 0, how)
    \/ \E w \in {1, 2}, ord \in Orders, ub \in Overruns : WriteLoop(w, ord, ub)
    \/ \E w \in {1, 2}, ord \in Orders, ub \in Overruns : ReadLoop(w, ord, ub)

SpecLoop == Init /\ [][NextLoop]_vars /\ WF_vars(NextLoop)

\* SpecVector: a buffer A, Owned or Borrowed, that vectors are appended to
NextVector ==
    \/ Construct(A)
    \/ \E n \in Lens, how \in AllocOutcomes : ConstructFill(A, n, 17, how)
    \/ \E n \in Lens : Ref(A, EXT, n)
    \/ Destroy(A)
    \/ \E bytes \in ByteSeqs, off \in Offsets, how \in AllocOutcomes :
           AppendVector(A, bytes, off, how)
    \/ \E bytes \in ByteSeqs, off \in Offsets, how \in AllocOutcomes :
           PlusAssignVector(A, bytes, off, how)

SpecVector == Init /\ [][NextVector]_vars

\* ------------------------------------------------------------------------
\* What the claims speak of.
\* the bytes [0, size()) of c, as far as its block holds them
Bytes(c, m) ==
    IF c.buf = NULL \/ ~m[c.buf].live THEN <<>>
    ELSE [i \in 1 .. Min(c.size, Len(m[c.buf].data)) |-> m[c.buf].data[i]]

\* c is Owned: it holds no memory, or a block of the heap that is its own
Owned(c, m) == ~c.ref /\ (c.buf = NULL \/ (c.buf \in HeapBlocks /\ m[c.buf].live))
\* c is Borrowed: it is laid over the caller's region
Borrowed(c) == c.ref /\ c.buf = EXT

\* the size() bytes of c exist
Backed(c, m) == Len(Bytes(c, m)) = c.size

Returned == last'.st = "ok" /\ fault' = "none"
Thrown(e) == last'.st = e /\ fault' = "none"

\* the blocks differ from before at most in the bytes [off, off + n) of block p
OnlyTouched(p, off, n) ==
    \A b \in Blocks :
        /\ mem'[b].live = mem[b].live
        /\ Len(mem'[b].data) = Len(mem[b].data)
        /\ \A i \in 1 .. Len(mem[b].data) :
               mem'[b].data[i] # mem[b].data[i] => (b = p /\ i > off /\ i <= off + n)

\* ------------------------------------------------------------------ C1
\* a write of n bytes at off, as C1 describes it
WriteContract(off, n) ==
    /\ bufs'[A].size = bufs[A].size
    /\ bufs'[A].cap = bufs[A].cap
    /\ IF off + n > bufs[A].size
       THEN Thrown("out_of_range") /\ mem' = mem
       ELSE Returned /\ OnlyTouched(bufs[A].buf, off, n)

\* C1: on a buffer whose size() bytes exist, write<T>(value, offset), typed or
\* of a single byte, never changes size() or capacity(); it fails with
\* OutOfRange exactly when offset + sizeof(T) > size(), leaving every byte
\* unchanged, and otherwise changes only the bytes [offset, offset + sizeof(T)).
C1_WriteNeverGrows ==
    [][Backed(bufs[A], mem) =>
        /\ last'.op = "write" =>
               \A value \in Values2, ord \in Orders, off \in Offsets :
                   Write(A, value, ord, off) => WriteContract(off, Len(value))
        /\ last'.op = "write_byte" =>
               \A v \in SampleBytes, off \in Offsets :
                   WriteByte(A, v, off) => WriteContract(off, 1)]_vars

\* ------------------------------------------------------------------ C2
\* the call failed with OutOfRange and touched nothing
Rejected == Thrown("out_of_range") /\ mem' = mem /\ bufs' = bufs

\* C2: every read<T>(offset), write<T>(value, offset) and write_bytes(ptr, len,
\* offset) that would touch a byte index >= size() fails with OutOfRange and
\* touches no memory, for every offset of size_type, the ones where
\* offset + len wraps included.
C2_OutOfRangeRejected ==
    [][/\ last'.op = "read" =>
              \A ord \in Orders, off \in Offsets :
                  (Read(A, 2, ord, off) /\ off + 2 > bufs[A].size) => Rejected
       /\ last'.op = "read_byte" =>
              \A off \in Offsets :
                  (ReadByte(A, off) /\ off + 1 > bufs[A].size) => Rejected
       /\ last'.op = "write" =>
              \A value \in Values2, ord \in Orders, off \in Offsets :
                  (Write(A, value, ord, off) /\ off + Len(value) > bufs[A].size) => Rejected
       /\ last'.op = "write_byte" =>
              \A v \in SampleBytes, off \in Offsets :
                  (WriteByte(A, v, off) /\ off + 1 > bufs[A].size) => Rejected
       /\ last'.op = "write_bytes" =>
              \A bytes \in ByteSeqs, off \in Offsets :
                  (WriteBytes(A, bytes, off) /\ Len(bytes) > 0
                       /\ off + Len(bytes) > bufs[A].size) => Rejected]_vars

\* ------------------------------------------------------------------ C4
GrowthCalls == {"resize", "append", "append_byte", "append_bytes"}
MutatingCalls == {"write", "write_byte", "write_bytes", "fill",
                  "append", "append_byte", "append_bytes"}

\* a Borrowed buffer was grown past its length by the step
GrewFromBorrowed ==
    /\ Borrowed(bufs[A]) /\ last'.op \in GrowthCalls /\ Returned
    /\ bufs'[A].size > bufs[A].cap

Appended(data) ==
    /\ bufs'[A].size = bufs[A].size + Len(data)
    /\ Backed(bufs'[A], mem')
    /\ \A i \in 1 .. Len(Bytes(bufs[A], mem)) :
           Bytes(bufs'[A], mem')[i] = Bytes(bufs[A], mem)[i]
    /\ \A i \in 1 .. Len(data) :
           Bytes(bufs'[A], mem')[bufs[A].size + i] = data[i]

\* the value a read of w bytes at off returns after the step
ReadBack(w, ord, off) == BufRead(bufs'[A], mem', w, ord, off, host)

\* C7: an append that returns increases size() by exactly the width of the
\* value (or the number of raw bytes), leaves the bytes [0, old size)
\* unchanged and stores the new data at [old size, new size), whether or not
\* the capacity was reallocated; a read at the old size then returns the
\* appended value.
C7_AppendGrowsByWidth ==
    [][/\ (last'.op = "append" /\ Returned) =>
              \A value \in Values2, ord \in Orders, how \in AllocOutcomes :
                  AppendValue(A, value, ord, how) =>
                      /\ Appended(EndianWrite(value, Requested(ord, host), host))
                      /\ Good(ReadBack(Len(value), ord, bufs[A].size))
                      /\ ReadBack(Len(value), ord, bufs[A].size).val = value
       /\ (last'.op = "append_byte" /\ Returned) =>
              \A v \in SampleBytes, how \in AllocOutcomes :
                  AppendByte(A, v, how) => Appended(<<v>>)
       /\ (last'.op = "append_bytes" /\ Returned) =>
              \A bytes \in ByteSeqs, how \in AllocOutcomes :
                  AppendBytes(A, bytes, how) => Appended(bytes)]_vars

\* the value <<17, 255>> was appended after a first byte 255, growing the
\* buffer to MaxLen bytes on a block of the minimum size, and was read back
C7_Witness ==
    /\ last.op = "read" /\ last.st = "ok" /\ last.val = <<17, 255>>
    /\ bufs[A].size = MaxLen /\ bufs[A].cap = DEFAULT_MINI_SIZE
    /\ Bytes(bufs[A], mem)[1] = 255

\* ------------------------------------------------------------------ C3
\* C3: in every state of a container, after any constructor (the one taking a
\* pointer and a length with a null pointer included), ref(), resize,
\* push_back, shrink, shrink_to_fit, clear, copy and move, size <= capacity
\* when it is Owned and size = capacity when it is Borrowed.
C3_SizeWithinCapacity ==
    \A x \in Bufs :
        Alive(x) => IF bufs[x].ref THEN bufs[x].size = bufs[x].cap
                    ELSE bufs[x].size <= bufs[x].cap

\* ------------------------------------------------------------------ C5
\* C5: the caller's memory is never deallocated by the container: across
\* resize, clear, shrink, shrink_to_fit, copy assignment, move and
\* destruction, deallocate and reallocate are only applied to a block the
\* container allocated itself.
C5_CallerMemoryNeverFreed == fault # "free_of_caller_memory"

\* ------------------------------------------------------------------ C6
CopyCalls == {"BufferT(const&)", "operator=(const&)", "SimpleBufferT::operator=(const&)"}

\* C6: after copy construction or copy assignment of A from B, whatever A and
\* B were before, A is Owned, has the size and the bytes of B, and shares no
\* memory with B or with the caller's region, which the copy left as they
\* were.
C6_CopyIsIndependent ==
    [][(last'.op \in CopyCalls /\ Returned /\ Alive(B)) =>
        \A how \in AllocOutcomes :
            (ConstructCopy(A, B, how) \/ Assign(A, B, how) \/ AssignContainer(A, B, how)) =>
                /\ Owned(bufs'[A], mem')
                /\ bufs'[A].size = bufs[B].size
                /\ Bytes(bufs'[A], mem') = Bytes(bufs[B], mem)
                /\ bufs'[A].buf # NULL => bufs'[A].buf \notin {bufs'[B].buf, EXT}
                /\ mem'[EXT] = mem[EXT]
                /\ bufs'[B] = bufs[B]
                /\ Bytes(bufs'[B], mem') = Bytes(bufs[B], mem)]_vars

\* ------------------------------------------------------------------ C8
\* C8: for every multi-byte value, every in-range offset, each requested order
\* (big, little, native) and each byte order of the machine, write<T>(v, off,
\* order) followed by read<T>(off, order) returns exactly v.
C8_WriteReadRoundTrip ==
    [][(last'.op = "write" /\ Returned) =>
        \A value \in CodecValues, ord \in Orders, off \in CodecOffsets :
            Write(A, value, ord, off) =>
                /\ Good(ReadBack(Len(value), ord, off))
                /\ ReadBack(Len(value), ord, off).val = value]_vars

\* 0xffee was written little-endian on a big-endian machine, which swaps it
C8_Witness ==
    /\ last.op = "write" /\ last.st = "ok" /\ host = "big"
    /\ Bytes(bufs[A], mem)[1] = 238 /\ Bytes(bufs[A], mem)[2] = 255

\* ------------------------------------------------------------------ C9
\* the integer a sequence of bytes denotes, the most significant first
RECURSIVE IntOf(_)
IntOf(digits) ==
    IF Len(digits) = 0 THEN 0
    ELSE 256 * IntOf(SubSeq(digits, 1, Len(digits) - 1)) + digits[Len(digits)]

\* the w bytes of the buffer at off, before the step and after it
At(off, w) == ReadMem(mem, bufs[A].buf, off, w)
AtAfter(off, w) == ReadMem(mem', bufs'[A].buf, off, w)

\* C9: on a machine of either byte order read_be<T>(off) returns the integer
\* whose most significant byte is the byte at off and whose least significant
\* byte is the byte at off + sizeof(T) - 1, and read_le<T>(off) the integer of
\* the same bytes in the opposite order of significance: the bytes 0xff, 0xee
\* give 0xffee and 0xeeff; write_be and write_le lay the bytes out the same
\* way.
C9_ByteOrder ==
    [][/\ (last'.op = "read" /\ Returned) =>
              \A w \in Widths, off \in CodecOffsets :
                  /\ Read(A, w, kBigEndian, off) =>
                         /\ last'.val = At(off, w)
                         /\ w = 2 => IntOf(last'.val) = 256 * At(off, 2)[1] + At(off, 2)[2]
                         /\ At(off, w) = <<255, 238>> => IntOf(last'.val) = 65518
                  /\ Read(A, w, kLittleEndian, off) =>
                         /\ last'.val = Reverse(At(off, w))
                         /\ w = 2 => IntOf(last'.val) = 256 * At(off, 2)[2] + At(off, 2)[1]
                         /\ At(off, w) = <<255, 238>> => IntOf(last'.val) = 61183
       /\ (last'.op = "write" /\ Returned) =>
              \A value \in CodecValues, off \in CodecOffsets :
                  /\ Write(A, value, kBigEndian, off) => AtAfter(off, Len(value)) = value
                  /\ Write(A, value, kLittleEndian, off) =>
                         AtAfter(off, Len(value)) = Reverse(value)]_vars

\* the bytes 0xff, 0xee were read little-endian on a big-endian machine
C9_Witness ==
    /\ last.op = "read" /\ last.st = "ok" /\ host = "big"
    /\ last.val = <<238, 255>>
    /\ Bytes(bufs[A], mem)[1] = 255 /\ Bytes(bufs[A], mem)[2] = 238

\* ----------------------------------------------------------------- C10
\* a cursor read of w bytes in the order endianness, as C10 describes it
CursorReadContract(w, endianness) ==
    /\ IF read_index + w > bufs[A].size
       THEN Thrown("out_of_range") /\ read_index' = read_index
       ELSE /\ Returned
            /\ last'.val = EndianRead(At(read_index, w), endianness, host)
            /\ read_index' = read_index + w
    /\ write_index' = write_index
    /\ mem' = mem
    /\ bufs' = bufs

\* C10: a cursor read<T>() on a buffer whose size() bytes exist fails with
\* OutOfRange and leaves read_index unchanged if read_index + sizeof(T) >
\* size(); otherwise it returns the value decoded from the bytes [read_index,
\* read_index + sizeof(T)) and advances read_index by sizeof(T). Either way
\* write_index, the bytes of the buffer and its size are unchanged.
C10_CursorRead ==
    [][Backed(bufs[A], mem) =>
        /\ last'.op = "stream_read" =>
               \A ord \in Orders, ub \in Overruns :
                   StreamRead(2, ord, ub) => CursorReadContract(2, Requested(ord, host))
        /\ last'.op = "stream_read_byte" =>
               \A ub \in Overruns :
                   StreamReadByte(ub) => CursorReadContract(1, kBigEndian)]_vars

\* ----------------------------------------------------------------- C11
\* a cursor write of the bytes data, as C11 describes it
CursorWriteContract(data) ==
    /\ IF write_index + Len(data) > bufs[A].size
       THEN Thrown("out_of_range") /\ write_index' = write_index /\ mem' = mem
       ELSE /\ Returned
            /\ OnlyTouched(bufs[A].buf, write_index, Len(data))
            /\ AtAfter(write_index, Len(data)) = data
            /\ write_index' = write_index + Len(data)
    /\ read_index' = read_index
    /\ bufs' = bufs

\* C11: a cursor write<T>(value), typed or of a single byte, on a buffer whose
\* size() bytes exist fails with OutOfRange, leaving write_index and every
\* byte unchanged, if write_index + sizeof(T) > size(); otherwise it stores
\* the encoded value at [write_index, write_index + sizeof(T)) and advances
\* write_index by sizeof(T). Either way the size of the buffer and read_index
\* are unchanged. (StreamBufferT::write_bytes names size(), which the class
\* does not declare: no program that calls it builds, so it has no step.)
C11_CursorWrite ==
    [][Backed(bufs[A], mem) =>
        /\ last'.op = "stream_write" =>
               \A value \in Values2, ord \in Orders, ub \in Overruns :
                   StreamWrite(value, ord, ub) =>
                       CursorWriteContract(EndianWrite(value, Requested(ord, host), host))
        /\ last'.op = "stream_write_byte" =>
               \A v \in SampleBytes, ub \in Overruns :
                   StreamWriteByte(v, ub) => CursorWriteContract(<<v>>)]_vars

\* ----------------------------------------------------------------- C12
\* C12: read_index and write_index of a cursor are 0 when it is constructed,
\* never decrease while it lives, and are at most size() of its buffer after
\* every step: cursor reads and writes that return or fail, resize and clear
\* of the buffer through buf(), and move construction, for the cursor moved
\* from and for the new one alike.
C12_IndicesWithinSize ==
    [][/\ (~Alive(A) /\ bufs'[A].alive) => (read_index' = 0 /\ write_index' = 0)
       /\ (Alive(A) /\ bufs'[A].alive) =>
              (read_index' >= read_index /\ write_index' >= write_index)
       /\ bufs'[A].alive =>
              (read_index' <= bufs'[A].size /\ write_index' <= bufs'[A].size)
       /\ last'.op = "StreamBufferT(&&)" =>
              (read_index' <= bufs'[B].size /\ write_index' <= bufs'[B].size)]_vars

\* ----------------------------------------------------------------- C13
\* a single-byte step at index i, moved to j by the step, as C13 describes it:
\* at the end it is rejected; before the end it returns, advances by one, and
\* the end is reached exactly when as many bytes were passed as the size
EofDiscipline(i, j, eof_before, eof_after) ==
    /\ eof_before <=> (i >= bufs[A].size)
    /\ IF eof_before
       THEN Thrown("out_of_range") /\ j = i /\ eof_after
       ELSE Returned /\ j = i + 1 /\ (eof_after <=> (j = bufs[A].size))

\* C13: on a cursor whose indices are within the size n of its buffer,
\* write_eof() is true exactly when write_index >= n; a single-byte write
\* before the end returns and makes write_eof() true exactly when it was the
\* n-th, and a single-byte write at the end is rejected with OutOfRange. The
\* same holds of read_eof() and single-byte reads.
C13_EofDiscipline ==
    [][(Backed(bufs[A], mem) /\ read_index <= bufs[A].size
                             /\ write_index <= bufs[A].size) =>
        /\ last'.op = "stream_write_byte" =>
               EofDiscipline(write_index, write_index',
                             write_eof(bufs[A], write_index),
                             write_eof(bufs'[A], write_index'))
        /\ last'.op = "stream_read_byte" =>
               EofDiscipline(read_index, read_index',
                             read_eof(bufs[A], read_index),
                             read_eof(bufs'[A], read_index'))]_vars

\* ----------------------------------------------------------------- C14
\* C14: on a cursor over a buffer of a fixed size that is written
\* sequentially, every read that returns and lies within what has been
\* written returns the bytes that were written at its position, in the order
\* they were written (a two-byte read returns the value those two bytes
\* encode in the order of the read), however reads and writes interleave; and
\* no read or write that returns changes a byte that was written before.
C14_ReadsYieldWrites ==
    [][/\ (last'.op = "stream_read_byte" /\ Returned /\ read_index' <= write_index) =>
              last'.val = <<PayloadAt(read_index)>>
       /\ (last'.op = "stream_read" /\ Returned /\ read_index' <= write_index) =>
              \A ord \in Orders, ub \in Overruns :
                  StreamRead(2, ord, ub) =>
                      last'.val = PayloadValue(read_index, ord, host)
       /\ (last'.op \in {"stream_read", "stream_read_byte",
                         "stream_write", "stream_write_byte"} /\ Returned) =>
              /\ \A i \in 1 .. write_index' : Bytes(bufs'[A], mem')[i] = PayloadAt(i - 1)
              /\ bufs'[A].size = bufs[A].size]_vars

\* a buffer of StreamLen bytes was written to its end and read back to its end
C14_Witness ==
    /\ Alive(A) /\ bufs[A].size = StreamLen /\ fault = "none"
    /\ write_eof(bufs[A], write_index) /\ read_eof(bufs[A], read_index)
    /\ last.op = "stream_read_byte" /\ last.st = "ok"
    /\ last.val = <<PayloadAt(StreamLen - 1)>>

\* ----------------------------------------------------------------- C15
\* the slice B of A is a buffer of its own holding n bytes of A from off on,
\* and A and its bytes are as they were
SliceOf(off, n) ==
    /\ Returned
    /\ Owned(bufs'[B], mem') /\ Backed(bufs'[B], mem')
    /\ bufs'[B].size = n
    /\ \A i \in 1 .. n : Bytes(bufs'[B], mem')[i] = Bytes(bufs[A], mem)[off + i]
    /\ bufs'[B].buf # NULL => bufs'[B].buf \notin {bufs[A].buf, EXT}
    /\ bufs'[A] = bufs[A]
    /\ Bytes(bufs'[A], mem') = Bytes(bufs[A], mem)

\* C15: on a buffer that is not empty and whose bytes exist, slice(offset,
\* count) with offset < size() returns, unless memory ran out, a new Owned
\* buffer of exactly min(count, size() - offset) bytes, the bytes [offset,
\* offset + that length) of the source, never more, and leaves the source
\* unchanged; a later write to the slice does not change the source and a
\* later write to the source does not change the slice.
C15_SliceClamped ==
    [][/\ (last'.op = "slice" /\ Backed(bufs[A], mem)) =>
              \A off \in Offsets, count \in Counts, how \in AllocOutcomes :
                  (Slice(A, B, off, count, how) /\ off < bufs[A].size) =>
                      IF how = "fail" /\ ~Returned THEN Thrown("bad_alloc")
                      ELSE SliceOf(off, IF count < bufs[A].size - off THEN count
                                        ELSE bufs[A].size - off)
       /\ (last'.op = "write_byte" /\ Returned /\ Alive(A) /\ Alive(B)) =>
              \A off \in Lens :
                  /\ WriteByte(A, 255, off) => Bytes(bufs'[B], mem') = Bytes(bufs[B], mem)
                  /\ WriteByte(B, 255, off) => Bytes(bufs'[A], mem') = Bytes(bufs[A], mem)]_vars

\* ----------------------------------------------------------------- C16
\* C16: slice(offset, count) of an empty buffer, or with offset >= size(),
\* returns an empty buffer and reads no memory, for every count and every
\* offset, those above size() included.
C16_SliceEmpty ==
    [][(last'.op = "slice" /\ Backed(bufs[A], mem)) =>
        \A off \in Offsets, count \in Counts, how \in AllocOutcomes :
            (Slice(A, B, off, count, how) /\ (empty(bufs[A]) \/ off >= bufs[A].size)) =>
                /\ Returned
                /\ bufs'[B] = Empty
                /\ mem' = mem
                /\ bufs'[A] = bufs[A]]_vars

\* ----------------------------------------------------------------- C17
\* the number of bytes fill(value, offset, count) is to set: count of them, or
\* all from offset to the end when count is 0 or reaches past the end
FillLength(offset, count) ==
    IF offset >= bufs[A].size THEN 0
    ELSE IF count = 0 \/ offset + count > bufs[A].size THEN bufs[A].size - offset
    ELSE count

\* C17: on a buffer whose size() bytes exist, fill(value, offset, count)
\* returns having set the bytes [offset, offset + count) to value, or [offset,
\* size()) when count is 0, and changed no other byte, nor size() or
\* capacity(); for every offset and count no byte at an index >= size() is
\* written.
C17_FillFrame ==
    [][(last'.op = "fill" /\ Backed(bufs[A], mem)) =>
        \A off \in Offsets, count \in Counts :
            Fill(A, 255, off, count) =>
                /\ Returned
                /\ bufs' = bufs
                /\ OnlyTouched(bufs[A].buf, off, FillLength(off, count))
                /\ \A i \in 1 .. FillLength(off, count) :
                       Bytes(bufs'[A], mem')[off + i] = 255]_vars

\* ----------------------------------------------------------------- C18
\* the capacity() bytes of c exist and hold its size() bytes: so it is for a
\* container no call on which has failed
Consistent(c, m) ==
    /\ c.size <= c.cap
    /\ IF c.buf = NULL THEN c.cap = 0
       ELSE m[c.buf].live /\ Len(m[c.buf].data) >= c.cap

\* C18: after move construction or move assignment of A from another buffer
\* B, A has the size and the bytes B had, holds the memory B held (the very
\* block, Owned or Borrowed as B was), and B is empty: its size and its
\* capacity are 0 and it holds no memory.
C18_MoveTransfers ==
    [][(last'.op \in {"BufferT(&&)", "operator=(&&)"}
            /\ Alive(B) /\ Consistent(bufs[B], mem)) =>
        ((ConstructMove(A, B) \/ AssignMove(A, B)) =>
            /\ Returned
            /\ bufs'[A].alive
            /\ bufs'[A].size = bufs[B].size
            /\ Bytes(bufs'[A], mem') = Bytes(bufs[B], mem)
            /\ bufs'[A].buf = bufs[B].buf /\ bufs'[A].ref = bufs[B].ref
            /\ bufs'[A].cap = bufs[B].cap
            /\ bufs'[B].size = 0 /\ bufs'[B].cap = 0 /\ bufs'[B].buf = NULL
            /\ mem'[EXT] = mem[EXT])]_vars

\* A was move-assigned an Owned buffer of MaxLen bytes that had been written to
C18_Witness ==
    /\ last.op = "operator=(&&)" /\ last.st = "ok" /\ fault = "none"
    /\ Owned(bufs[A], mem) /\ bufs[A].size = MaxLen
    /\ Bytes(bufs[A], mem)[MaxLen] = 255
    /\ Alive(B) /\ bufs[B] = Empty

\* ----------------------------------------------------------------- C19
\* the step grew A, Borrowed and as long as its capacity, and A is now Owned
\* on a block that was free, with the bytes it had as its prefix
BorrowedGrowsOwned ==
    (/\ Borrowed(bufs[A]) /\ bufs[A].size = bufs[A].cap
     /\ last'.op \in {"resize", "push_back", "operator+="} /\ Returned
     /\ bufs'[A].size > bufs[A].size) =>
        /\ Owned(bufs'[A], mem')
        /\ bufs'[A].buf \in HeapBlocks /\ ~mem[bufs'[A].buf].live
        /\ \A i \in 1 .. bufs[A].size : Bytes(bufs'[A], mem')[i] = mem[EXT].data[i]

AllocationError == Thrown("bad_alloc") /\ mem' = mem

\* C20: a resize or append that has to grow the buffer past its capacity and
\* is refused the memory (malloc or realloc returns null) throws
\* std::bad_alloc before any byte is copied, on an Owned buffer (reallocate)
\* and on a Borrowed one (allocate and copy) alike.
C20_AllocationFailureReported ==
    [][Backed(bufs[A], mem) =>
        /\ last'.op = "resize" =>
               \A n \in Lens :
                   (Resize(A, n, "fail") /\ n > bufs[A].cap) => AllocationError
        /\ last'.op = "append" =>
               \A value \in Values2, ord \in Orders :
                   (AppendValue(A, value, ord, "fail")
                        /\ bufs[A].size + Len(value) > bufs[A].cap) => AllocationError
        /\ last'.op = "append_byte" =>
               ((AppendByte(A, 255, "fail") /\ bufs[A].size + 1 > bufs[A].cap)
                   => AllocationError)
        /\ last'.op = "append_bytes" =>
               \A bytes \in ByteSeqs :
                   (AppendBytes(A, bytes, "fail")
                        /\ bufs[A].size + Len(bytes) > bufs[A].cap) => AllocationError]_vars

\* ----------------------------------------------------------------- C21
\* every one of the size() bytes of c has been written
Initialised(c, m) == Backed(c, m) /\ \A i \in 1 .. c.size : Bytes(c, m)[i] # Uninit

\* C21: a == b is true exactly when the two buffers have the same size() and
\* the same byte at every index below it; buffers of different sizes are
\* never equal, even when one is a prefix of the other; the capacity and the
\* ownership of the two play no part, and the comparison changes nothing.
C21_EqualBySizeAndBytes ==
    [][(/\ last'.op = "operator==" /\ Alive(A) /\ Alive(B)
        /\ Initialised(bufs[A], mem) /\ Initialised(bufs[B], mem)) =>
        \A ind \in BOOLEAN :
            Equals(A, B, ind) =>
                /\ Returned
                /\ bufs' = bufs /\ mem' = mem
                /\ last'.val = <<1>> <=>
                       /\ bufs[A].size = bufs[B].size
                       /\ Bytes(bufs[A], mem) = Bytes(bufs[B], mem)
                /\ last'.val \in {<<0>>, <<1>>}]_vars

\* a Borrowed buffer, as large as its capacity, was found equal to an Owned
\* one of a larger capacity that holds the same bytes
C21_Witness ==
    /\ last.op = "operator==" /\ last.val = <<1>> /\ fault = "none"
    /\ Borrowed(bufs[A]) /\ Owned(bufs[B], mem)
    /\ bufs[A].size = RegionLen /\ bufs[B].size = RegionLen
    /\ bufs[B].cap > bufs[A].cap
    /\ Bytes(bufs[A], mem) = <<255, 17>>

\* a buffer was found different from a longer one that starts with its bytes
C21_PrefixWitness ==
    /\ last.op = "operator==" /\ last.val = <<0>> /\ fault = "none"
    /\ bufs[A].size = 1 /\ bufs[B].size = MaxLen
    /\ Bytes(bufs[A], mem) = <<255>> /\ Bytes(bufs[B], mem)[1] = 255

\* ----------------------------------------------------------------- C22
\* the capacity after a request for n bytes on a buffer of capacity cap
GrownCapacity(n, cap) ==
    IF n > cap THEN Max(n, Max(2 * cap, DEFAULT_MINI_SIZE)) ELSE cap

\* the capacity of a buffer that got its n bytes one at a time
SteppedCapacity(n) ==
    IF n = 0 THEN 0
    ELSE IF n <= 32 THEN 32
    ELSE IF n <= 64 THEN 64
    ELSE 128

\* the step asked A for n bytes and was given them
Granted(n) ==
    /\ Returned
    /\ bufs'[A].size = n
    /\ bufs'[A].cap = GrownCapacity(n, bufs[A].cap)
    /\ n <= bufs[A].cap =>
           /\ bufs'[A].buf = bufs[A].buf
           /\ \A b \in Blocks : /\ mem'[b].live = mem[b].live
                                /\ Len(mem'[b].data) = Len(mem[b].data)

C23_ShrinkCounter ==
    [][(/\ last'.op = "shrink" /\ Alive(A) /\ Consistent(bufs[A], mem)
        /\ Returned) =>
        LET c == bufs[A]
            d == bufs'[A]
        IN /\ d.size = c.size
           /\ Bytes(d, mem') = Bytes(c, mem)
           /\ IF ~(c.size > 0 /\ c.size < 2 * c.cap)
              THEN d.cnt = 0 /\ d.cap = c.cap
              ELSE IF c.cnt + 1 > 2
              THEN d.cap = c.size /\ d.cnt = 0
              ELSE d.cnt = c.cnt + 1 /\ d.cap = c.cap]_vars

\* an Owned buffer was compacted by shrink(): its block is as long as its size
C23_Witness ==
    /\ last.op = "shrink" /\ ~last.ref /\ last.st = "ok" /\ fault = "none"
    /\ Owned(bufs[A], mem) /\ bufs[A].size = MaxContainerLen
    /\ bufs[A].cap = bufs[A].size /\ bufs[A].cnt = 0
    /\ Len(mem[bufs[A].buf].data) = bufs[A].size

\* the second qualifying call in a row was counted and did not compact
C23_SecondCallWitness ==
    /\ last.op = "shrink" /\ last.st = "ok" /\ fault = "none"
    /\ bufs[A].cnt = 2 /\ bufs[A].size = 1 /\ bufs[A].cap = DEFAULT_MINI_SIZE

\* ----------------------------------------------------------------- C24
\* the step was a shrink_to_fit() that compacted A and kept what it holds
Compacted ==
    /\ bufs'[A].cap = bufs'[A].size
    /\ bufs[A].size = 0 => (bufs'[A].cap = 0 /\ bufs'[A].buf = NULL)
    /\ bufs'[A].cnt = 0
    /\ bufs'[A].size = bufs[A].size
    /\ Bytes(bufs'[A], mem') = Bytes(bufs[A], mem)

\* C24: after a shrink_to_fit() that returns, in any state the container can
\* be in, capacity() = size() (0 and no memory when size() = 0), the trigger
\* counter is 0 whatever it was, and size() and the bytes below it are as
\* they were.
C24_ShrinkToFitCompacts ==
    [][(last'.op = "shrink_to_fit" /\ Alive(A) /\ Returned) => Compacted]_vars

\* ----------------------------------------------------------------- C25
\* the step was a resize(n) of A that did what C25 says
Resized_to(n) ==
    /\ bufs'[A].size = n
    /\ Backed(bufs[A], mem) =>
           \A i \in 1 .. Min(bufs[A].size, n) :
               Bytes(bufs'[A], mem')[i] = Bytes(bufs[A], mem)[i]
    /\ n = 0 =>
           /\ bufs'[A] = Empty
           /\ (Owned(bufs[A], mem) /\ bufs[A].buf # NULL) => ~mem'[bufs[A].buf].live
           /\ bufs[A].ref => mem' = mem
    /\ (0 < n /\ n <= bufs[A].cap) =>
           /\ bufs'[A].cap = bufs[A].cap
           /\ bufs'[A].ref = bufs[A].ref
           /\ bufs'[A].buf = bufs[A].buf
           /\ mem' = mem

\* C25: a resize(n) that returns leaves size() = n and the bytes below
\* min(old size, n) as they were; resize(0) frees the block of an Owned
\* container, frees nothing of a Borrowed one, and leaves either empty and
\* Owned: size 0, capacity 0, no pointer, counter 0; resize(n) with
\* 0 < n <= capacity() changes neither the capacity nor the ownership.
C25_Resize ==
    [][(last'.op = "resize" /\ Alive(A) /\ Returned) =>
        \A n \in ContainerLens, how \in AllocOutcomes :
            Resize(A, n, how) => Resized_to(n)]_vars

\* a Borrowed buffer of two bytes was resized to one: it is Borrowed still,
\* with the capacity it had
C25_Witness ==
    /\ last.op = "resize" /\ last.ref /\ last.st = "ok" /\ fault = "none"
    /\ Borrowed(bufs[A]) /\ bufs[A].size = 1 /\ bufs[A].cap = MaxContainerLen

\* a Borrowed buffer was resized to nothing and is empty and Owned
C25_ReleaseWitness ==
    /\ last.op = "resize" /\ last.ref /\ last.st = "ok" /\ fault = "none"
    /\ bufs[A] = Empty /\ mem[EXT].live

\* ----------------------------------------------------------------- C26
\* the step appended the buffer y to A
AppendedBuffer(y) ==
    /\ fault' = "none"
    /\ Returned =>
           /\ bufs'[A].size = bufs[A].size + bufs[y].size
           /\ \A i \in 1 .. bufs[A].size :
                  Bytes(bufs'[A], mem')[i] = Bytes(bufs[A], mem)[i]
           /\ \A i \in 1 .. bufs[y].size :
                  Bytes(bufs'[A], mem')[bufs[A].size + i] = Bytes(bufs[y], mem)[i]

\* C26: a += other (push_back(other)) makes the size of a its old size plus
\* the size other had at the call, leaves the bytes below the old size as
\* they were and puts the bytes other had at the call after them, for every
\* pair of buffers, other being a itself included, as long as the memory
\* it needs is there.
C26_PlusAssignAppends ==
    [][(/\ last'.op = "operator+=" /\ Alive(A) /\ Consistent(bufs[A], mem)) =>
        \A y \in Bufs, how \in AllocOutcomes \ {"fail"} :
            (Alive(y) /\ Consistent(bufs[y], mem) /\ PlusAssign(A, y, how)) =>
                AppendedBuffer(y)]_vars

\* ----------------------------------------------------------------- C27
\* no call has raised OutOfRange, or run into what xran does before it
NoOutOfRange == last.st # "out_of_range" /\ fault = "none"

\* C27: over a buffer of any size and for a type of one byte or two, the loop
\* while (!read_eof()) read<T>() ends after finitely many turns with
\* read_eof() true, the loop while (!write_eof()) write<T>(v) with
\* write_eof() true, and no turn of either raises OutOfRange.
C27_LoopsTerminate ==
    /\ []NoOutOfRange
    /\ Alive(A) ~> (NoOutOfRange /\ read_eof(bufs[A], read_index))
    /\ (Alive(A) /\ last.op \in {WriteOp(1), WriteOp(2)}) ~>
           (NoOutOfRange /\ write_eof(bufs[A], write_index))

\* ----------------------------------------------------------------- C28
\* the step appended the elements `bytes` of a vector to A
AppendedVector(bytes) ==
    /\ fault' = "none"
    /\ Returned =>
           /\ bufs'[A].size = bufs[A].size + Len(bytes)
           /\ \A i \in 1 .. bufs[A].size :
                  Bytes(bufs'[A], mem')[i] = Bytes(bufs[A], mem)[i]
           /\ \A i \in 1 .. Len(bytes) :
                  Bytes(bufs'[A], mem')[bufs[A].size + i] = bytes[i]
           /\ bytes = <<>> => (bufs'[A] = bufs[A] /\ mem' = mem)

\* C28: append(vec) and += vec with a vector that is not empty make size()
\* larger by vec.size(), leave the bytes below the old size as they were and
\* store the bytes of the vector from the old size on; with an empty vector
\* they change nothing. The memory they need is taken to be there.
C28_VectorAppended ==
    [][(/\ last'.op \in {"append(vector)", "operator+=(vector)"}
        /\ Alive(A) /\ Consistent(bufs[A], mem)) =>
        \A bytes \in ByteSeqs, off \in Offsets, how \in AllocOutcomes \ {"fail"} :
            (\/ AppendVector(A, bytes, off, how)
             \/ PlusAssignVector(A, bytes, off, how)) => AppendedVector(bytes)]_vars

\* ----------------------------------------------------------------- C29
\* no container is left
AllDestroyed == \A x \in Bufs : ~Alive(x)

\* C29: no block is deallocated twice, and once every container has been
\* destroyed every block a container allocated has been deallocated: none is
\* left allocated, the block the destination of a move assignment held
\* before it included.
C29_BlocksFreedOnce ==
    /\ fault # "double_free"
    /\ (AllDestroyed /\ fault = "none") => \A b \in HeapBlocks : ~mem[b].live

====
